---- MODULE Spec2Model ----
(***************************************************************************)
(* A model of the crossing game's simulation core: the level generator    *)
(* (level.py, _make_level), Obstacle and Lane (obstacle.py), Player        *)
(* (player.py), the Level session (level.py) and the screen state machine  *)
(* of main() with its buttons (main.py, ui.py).                            *)
(*                                                                         *)
(* Units.  Pixels are integers, as pygame.Rect keeps them.  Times are     *)
(* integer milliseconds: main.py computes dt = clock.tick(FPS) / 1000.0,  *)
(* so every dt the program sees is a whole number of milliseconds.  The   *)
(* elapsed time and the spawn timer are kept exactly, in ms.  The player's *)
(* move cooldown is kept as the IEEE double the code holds, because the   *)
(* test `_move_cooldown <= 0.0` is decided by the rounding of the         *)
(* subtractions: a double is a pair <<hi, lo>> standing for               *)
(* (hi * 2^30 + lo) * 2^-60 seconds.                                       *)
(***************************************************************************)
EXTENDS Integers, Sequences, FiniteSets, TLC

VARIABLES
    time_elapsed,   \* Level._time_elapsed, ms
    running,        \* Level._running
    won,            \* Level._won
    lost,           \* Level._lost
    player,         \* Level.player: a Player record
    lanes,          \* Level.lanes: a sequence of Lane records
    op,             \* the operation that produced this state
    since_step,     \* ms of dt given to Player.update since the last accepted
                    \* step (-1: no step accepted yet); a history variable
    asked,          \* what the last Player.update was given: the position it
                    \* started from and the first directional key it processed
                    \* with the cooldown at 0 ("none" if it processed no such
                    \* key); a history variable
    from_state,     \* the session state the last Level operation was called
                    \* in: "idle", "running", "won" or "lost" ("none" before
                    \* the first); a history variable
    calls,          \* the calls of _make_level made so far, latest last: a
                    \* sequence of [level_num, config], at most CallsKept long
    obstacle,       \* one Obstacle on its own, with the position it started
                    \* from and the updates it was given
    tracked,        \* the obstacle an observer follows: [lane, index] into
                    \* lanes[lane].obstacles; index 0 when the obstacle followed
                    \* was removed (lane 0: none followed yet); a history variable
    main,           \* the locals of main(): [state, running, level_index, level],
                    \* level being "None" or "Level" (the Level object is the
                    \* session above)
    frame           \* what the last iteration of the main loop started from and
                    \* the calls of start_level it made: [state, level_index,
                    \* events, starts]; a history variable

vars == <<time_elapsed, running, won, lost, player, lanes, op, since_step, asked,
          from_state, calls, obstacle, tracked, main, frame>>

Max(a, b) == IF a >= b THEN a ELSE b

Min(a, b) == IF a <= b THEN a ELSE b

\* Python's int() of the quotient num/den: truncation toward zero.
Trunc(num, den) == IF num >= 0 THEN num \div den ELSE -((-num) \div den)

(***************************************************************************)
(* Program constants.                                                      *)
(***************************************************************************)
SCREEN_WIDTH == 900

SCREEN_HEIGHT == 700

PlayerRadius == 18

OffscreenMargin == 200

SpawnOffset == 20

(***************************************************************************)
(* IEEE doubles in [0, 2) that are multiples of 2^-60, as <<hi, lo>> with *)
(* value (hi * 2^30 + lo) * 2^-60.  Every dt of DtFloat and every         *)
(* cooldown value the code can compute from them is such a number.        *)
(***************************************************************************)
RECURSIVE Pow2(_)
Pow2(k) == IF k <= 0 THEN 1 ELSE 2 * Pow2(k - 1)

Limb == Pow2(30)

RECURSIVE Log2(_)
Log2(n) == IF n <= 1 THEN 0 ELSE 1 + Log2(n \div 2)

FZero == <<0, 0>>

FLeq(a, b) == a[1] < b[1] \/ (a[1] = b[1] /\ a[2] <= b[2])

\* Round the exact value <<hi, lo>> to 53 significant bits, ties to even.
FRound(hi, lo) ==
    IF hi < Pow2(23) THEN <<hi, lo>>
    ELSE LET ulp  == Pow2(Log2(hi) - 22)
             rem  == lo % ulp
             base == lo - rem
             up   == (2 * rem > ulp) \/ (2 * rem = ulp /\ (base \div ulp) % 2 = 1)
             lo2  == IF up THEN base + ulp ELSE base
         IN  IF lo2 >= Limb THEN <<hi + 1, lo2 - Limb>> ELSE <<hi, lo2>>

\* max(0.0, a - b) in double arithmetic.
FSubMax0(a, b) ==
    IF FLeq(a, b) THEN FZero
    ELSE LET borrow == IF a[2] < b[2] THEN 1 ELSE 0
         IN  FRound(a[1] - b[1] - borrow, a[2] - b[2] + borrow * Limb)

\* The double nearest to ms / 1000.0, for the frame times the model uses.
DtFloat ==
    (0 :> <<0, 0>>) @@
    (18 :> <<19327352, 893353196>>) @@
    (50 :> <<53687091, 214748368>>) @@
    (72 :> <<77309411, 352187312>>) @@
    (100 :> <<107374182, 429496736>>)

\* Player._cooldown_time = 0.09, as a double and in ms.
CooldownTime == <<96636764, 171798688>>

CooldownMs == 90

(***************************************************************************)
(* The level generator.                                                    *)
(***************************************************************************)
LaneConfigLowFloor(n, i) ==
    [direction   |-> IF i % 2 = 0 THEN 1 ELSE -1,
     speed       |-> 170 + (n - 1) * 28 + i * 6,
     spawn_every |-> Max(550, 1250 - (n - 1) * 60 - i * 10),
     width       |-> Max(70, Min(130, 120 - (n - 1) * 3)),
     gap_min     |-> Max(70, 165 - (n - 1) * 6 - i * 6)]

LaneConfigOddFirst(n, i) ==
    [direction   |-> IF i % 2 = 1 THEN 1 ELSE -1,
     speed       |-> 170 + (n - 1) * 28 + i * 6,
     spawn_every |-> Max(550, 1250 - (n - 1) * 60 - i * 10),
     width       |-> Max(70, Min(130, 120 - (n - 1) * 3)),
     gap_min     |-> Max(95, 165 - (n - 1) * 6 - i * 1)]

\* _make_level's body for one lane index i of level n.
LaneConfig(n, i) ==
    [direction   |-> IF i % 2 = 0 THEN 1 ELSE -1,
     speed       |-> 170 + (n - 1) * 28 + i * 6,
     spawn_every |-> Max(550, 1250 - (n - 1) * 60 - i * 10),
     width       |-> Max(70, Min(130, 120 - (n - 1) * 3)),
     gap_min     |-> Max(95, 165 - (n - 1) * 6 - i * 1)]

MakeLevelUnclamped(level_num) ==
    LET n           == level_num
        lane_height == 70 - (n - 1)
        lane_count  == Max(0, 5 + n)
    IN  [name           |-> n,
         lane_count     |-> lane_count,
         lane_height    |-> lane_height,
         finish_padding |-> Max(22, 32 - n),
         player_step    |-> lane_height,
         player_speed   |-> 420 + (n - 1) * 10,
         star_times     |-> [three |-> Max(8000, 13000 - (n - 1) * 400),
                             two   |-> Max(12000, 20000 - (n - 1) * 450)],
         lanes          |-> [k \in 1..lane_count |-> LaneConfig(n, k - 1)]]

MakeLevelStarsSwapped(level_num) ==
    LET n           == Max(1, Min(10, level_num))
        lane_height == 70 - (n - 1)
        lane_count  == 5 + n
    IN  [name           |-> n,
         lane_count     |-> lane_count,
         lane_height    |-> lane_height,
         finish_padding |-> Max(22, 32 - n),
         player_step    |-> lane_height,
         player_speed   |-> 420 + (n - 1) * 10,
         star_times     |-> [three |-> Max(12000, 20000 - (n - 1) * 450),
                             two   |-> Max(8000, 13000 - (n - 1) * 400)],
         lanes          |-> [k \in 1..lane_count |-> LaneConfig(n, k - 1)]]

\* _make_level
MakeLevel(level_num) ==
    LET n           == Max(1, Min(10, level_num))
        lane_height == 70 - (n - 1)
        lane_count  == 5 + n
    IN  [name           |-> n,
         lane_count     |-> lane_count,
         lane_height    |-> lane_height,
         finish_padding |-> Max(22, 32 - n),
         player_step    |-> lane_height,
         player_speed   |-> 420 + (n - 1) * 10,
         star_times     |-> [three |-> Max(8000, 13000 - (n - 1) * 400),
                             two   |-> Max(12000, 20000 - (n - 1) * 450)],
         lanes          |-> [k \in 1..lane_count |-> LaneConfig(n, k - 1)]]

(***************************************************************************)
(* Player.                                                                 *)
(***************************************************************************)
\* Player.__init__: the record a constructor call leaves.
NewPlayer(x, y, radius, step, bounds, sprite) ==
    [start_x |-> x, start_y |-> y, radius |-> radius, step |-> step,
     bounds |-> bounds, x |-> x, y |-> y, move_cooldown |-> FZero,
     sprite |-> sprite]

PlayerResetKeepsCooldown(p) ==
    [p EXCEPT !.x = p.start_x, !.y = p.start_y]

PlayerReset(p) ==
    [p EXCEPT !.x = p.start_x, !.y = p.start_y, !.move_cooldown = FZero]

\* The (dx, dy) of one key, 0 for a key that is no direction.
KeyDeltaDownIsUp(step, key) ==
    IF key \in {"K_UP", "K_w"} THEN <<0, -step>>
    ELSE IF key \in {"K_DOWN", "K_s"} THEN <<0, -step>>
    ELSE IF key \in {"K_LEFT", "K_a"} THEN <<-step, 0>>
    ELSE IF key \in {"K_RIGHT", "K_d"} THEN <<step, 0>>
    ELSE <<0, 0>>

KeyDelta(step, key) ==
    IF key \in {"K_UP", "K_w"} THEN <<0, -step>>
    ELSE IF key \in {"K_DOWN", "K_s"} THEN <<0, step>>
    ELSE IF key \in {"K_LEFT", "K_a"} THEN <<-step, 0>>
    ELSE IF key \in {"K_RIGHT", "K_d"} THEN <<step, 0>>
    ELSE <<0, 0>>

\* One iteration of the event loop of Player.update.
HandleEvent(p, event) ==
    IF event.type = "KEYDOWN" /\ FLeq(p.move_cooldown, FZero)
    THEN LET d == KeyDelta(p.step, event.key)
         IN  IF d[1] # 0 \/ d[2] # 0
             THEN [p EXCEPT !.x = @ + d[1], !.y = @ + d[2],
                            !.move_cooldown = CooldownTime]
             ELSE p
    ELSE p

RECURSIVE HandleEvents(_, _)
HandleEvents(p, events) ==
    IF events = <<>> THEN p
    ELSE HandleEvents(HandleEvent(p, Head(events)), Tail(events))

\* The clamp that ends Player.update.
ClampToEdge(p) ==
    LET left   == p.bounds[1]
        top    == p.bounds[2]
        right  == left + p.bounds[3]
        bottom == top + p.bounds[4]
    IN  [p EXCEPT !.x = Max(left, Min(right, @)),
                  !.y = Max(top, Min(bottom, @))]

Clamp(p) ==
    LET left   == p.bounds[1]
        top    == p.bounds[2]
        right  == left + p.bounds[3]
        bottom == top + p.bounds[4]
    IN  [p EXCEPT !.x = Max(left + p.radius, Min(right - p.radius, @)),
                  !.y = Max(top + p.radius, Min(bottom - p.radius, @))]

PlayerUpdate(p, dt, events) ==
    LET cooled == [p EXCEPT !.move_cooldown = FSubMax0(@, DtFloat[dt])]
    IN  Clamp(HandleEvents(cooled, events))

\* Player.rect: the collision rectangle, from the sprite when one loaded.
PlayerRect(p) ==
    IF p.sprite
    THEN LET w  == p.radius * 2 + 10
             h  == p.radius * 2 + 10
             cw == Max(8, w - (w * 28) \div 100)
             ch == Max(8, h - (h * 32) \div 100)
         IN  [x |-> Trunc(2 * p.x - cw, 2), y |-> Trunc(2 * p.y - ch, 2),
              w |-> cw, h |-> ch]
    ELSE LET r  == p.radius
             cr == Max(6, r - Max(0, (r * 35) \div 100))
         IN  [x |-> p.x - cr, y |-> p.y - cr, w |-> cr * 2, h |-> cr * 2]

(***************************************************************************)
(* pygame.Rect, as far as the simulation uses it.  A rectangle is a       *)
(* record [x, y, w, h] of integers.                                        *)
(***************************************************************************)
RectRight(r) == r.x + r.w

RectCenterY(r) == r.y + r.h \div 2

\* Rect.inflate(dx, dy): the size grows by (dx, dy) around the centre; the
\* corner moves by the C quotient dx / 2, which truncates toward zero.
RectInflate(r, dx, dy) ==
    [x |-> r.x - Trunc(dx, 2), y |-> r.y - Trunc(dy, 2),
     w |-> r.w + dx, h |-> r.h + dy]

\* Rect.colliderect: the interiors overlap; an empty rectangle hits nothing.
CollideRect(a, b) ==
    /\ a.w # 0 /\ a.h # 0 /\ b.w # 0 /\ b.h # 0
    /\ Min(a.x, a.x + a.w) < Max(b.x, b.x + b.w)
    /\ Min(a.y, a.y + a.h) < Max(b.y, b.y + b.h)
    /\ Max(a.x, a.x + a.w) > Min(b.x, b.x + b.w)
    /\ Max(a.y, a.y + a.h) > Min(b.y, b.y + b.h)

(***************************************************************************)
(* Obstacle and Lane.  All obstacles of a lane share the lane's y, size,  *)
(* speed and direction, so an obstacle is its rect.x and Lane.obstacles   *)
(* is the sequence of these, in list order.                                *)
(***************************************************************************)
ObstacleStandsStill(x, direction, speed, dt) == x

\* Obstacle.update: rect.x += int(direction * speed * dt)
ObstacleUpdate(x, direction, speed, dt) == x + Trunc(direction * speed * dt, 1000)

\* Lane.__init__
NewLane(rect, direction, speed, spawn_every, obstacle_width, obstacle_height, min_gap) ==
    [rect |-> rect,
     direction |-> IF direction >= 0 THEN 1 ELSE -1,
     speed |-> speed,
     spawn_every |-> spawn_every,
     obstacle_width |-> obstacle_width,
     obstacle_height |-> obstacle_height,
     min_gap |-> min_gap,
     obstacles |-> <<>>,
     spawn_timer |-> 0]

\* The rectangle of the obstacle of `lane` whose rect.x is x.
ObstacleRect(lane, x) ==
    [x |-> x, y |-> RectCenterY(lane.rect) - lane.obstacle_height \div 2,
     w |-> lane.obstacle_width, h |-> lane.obstacle_height]

\* The acceptance test of Lane.reset for a candidate x against those placed.
SeedFits(lane, x, placed) ==
    \A k \in 1..Len(placed) :
        \/ x + lane.obstacle_width + lane.min_gap <= placed[k]
        \/ x >= placed[k] + lane.obstacle_width + lane.min_gap

\* The greedy loop without its stop at seed_count.
RECURSIVE PlaceSeedsUncounted(_, _, _, _)
PlaceSeedsUncounted(lane, candidates, seed_count, placed) ==
    IF candidates = <<>> THEN placed
    ELSE PlaceSeedsUncounted(lane, Tail(candidates), seed_count,
                             IF SeedFits(lane, Head(candidates), placed)
                             THEN Append(placed, Head(candidates)) ELSE placed)

\* The greedy loop of Lane.reset over the sorted candidates.
RECURSIVE PlaceSeeds(_, _, _, _)
PlaceSeeds(lane, candidates, seed_count, placed) ==
    IF candidates = <<>> \/ Len(placed) >= seed_count THEN placed
    ELSE PlaceSeeds(lane, Tail(candidates), seed_count,
                    IF SeedFits(lane, Head(candidates), placed)
                    THEN Append(placed, Head(candidates)) ELSE placed)

\* candidates.sort(), for the set of the values drawn.  A value drawn twice
\* counts once: its second copy never passes the fit test, whether the first
\* was placed or not.
RECURSIVE Sorted(_)
Sorted(values) ==
    IF values = {} THEN <<>>
    ELSE LET least == CHOOSE x \in values : \A y \in values : x <= y
         IN  <<least>> \o Sorted(values \ {least})

\* Lane.reset, for the drawn seed_count and the set of candidates drawn.
LaneReset(lane, seed_count, candidates) ==
    LET placed == PlaceSeeds(lane, Sorted(candidates), seed_count, <<>>)
    IN  [lane EXCEPT !.obstacles = SortSeq(placed, LAMBDA a, b : a < b),
                     !.spawn_timer = 0]

\* min(obstacles, key=rect.left) and max(obstacles, key=rect.right), as x.
Leftmost(obstacles) ==
    CHOOSE x \in {obstacles[k] : k \in 1..Len(obstacles)} :
        \A k \in 1..Len(obstacles) : x <= obstacles[k]

Rightmost(obstacles) ==
    CHOOSE x \in {obstacles[k] : k \in 1..Len(obstacles)} :
        \A k \in 1..Len(obstacles) : x >= obstacles[k]

CanSpawn(lane, screen_width) ==
    IF lane.direction > 0
    THEN LET spawn_x == -lane.obstacle_width - SpawnOffset
         IN  \/ lane.obstacles = <<>>
             \/ Leftmost(lane.obstacles) - spawn_x >= lane.min_gap
    ELSE LET spawn_x == screen_width + SpawnOffset
         IN  \/ lane.obstacles = <<>>
             \/ spawn_x - (Rightmost(lane.obstacles) + lane.obstacle_width) >= lane.min_gap

\* The x at which Lane._spawn creates the obstacle.
SpawnXAtBase(lane, screen_width) ==
    IF lane.direction > 0
    THEN -lane.obstacle_width - SpawnOffset
    ELSE screen_width + SpawnOffset

SpawnXForgetsWidth(lane, screen_width) ==
    IF lane.direction > 0
    THEN LET base_x == -lane.obstacle_width - SpawnOffset
         IN  IF lane.obstacles # <<>>
             THEN Min(base_x, Leftmost(lane.obstacles) - lane.min_gap)
             ELSE base_x
    ELSE LET base_x == screen_width + SpawnOffset
         IN  IF lane.obstacles # <<>>
             THEN Max(base_x, Rightmost(lane.obstacles) + lane.obstacle_width + lane.min_gap)
             ELSE base_x

SpawnXNoOffset(lane, screen_width) ==
    IF lane.direction > 0
    THEN LET base_x == -lane.obstacle_width
         IN  IF lane.obstacles # <<>>
             THEN Min(base_x, Leftmost(lane.obstacles) - lane.min_gap - lane.obstacle_width)
             ELSE base_x
    ELSE LET base_x == screen_width
         IN  IF lane.obstacles # <<>>
             THEN Max(base_x, Rightmost(lane.obstacles) + lane.obstacle_width + lane.min_gap)
             ELSE base_x

SpawnX(lane, screen_width) ==
    IF lane.direction > 0
    THEN LET base_x == -lane.obstacle_width - SpawnOffset
         IN  IF lane.obstacles # <<>>
             THEN Min(base_x, Leftmost(lane.obstacles) - lane.min_gap - lane.obstacle_width)
             ELSE base_x
    ELSE LET base_x == screen_width + SpawnOffset
         IN  IF lane.obstacles # <<>>
             THEN Max(base_x, Rightmost(lane.obstacles) + lane.obstacle_width + lane.min_gap)
             ELSE base_x

Spawn(lane, screen_width) ==
    [lane EXCEPT !.obstacles = Append(@, SpawnX(lane, screen_width))]

\* The gap pass of a direction +1 lane: i from len - 2 down to 0.
RECURSIVE PushBackLeft(_, _, _)
PushBackLeft(lane, obs, i) ==
    IF i < 1 THEN obs
    ELSE LET desired_right == obs[i + 1] - lane.min_gap
         IN  PushBackLeft(lane,
                 IF obs[i] + lane.obstacle_width > desired_right
                 THEN [obs EXCEPT ![i] = desired_right - lane.obstacle_width]
                 ELSE obs,
                 i - 1)

\* The gap pass of a direction -1 lane: i from 1 up to len - 1.
RECURSIVE PushBackRight(_, _, _)
PushBackRight(lane, obs, i) ==
    IF i > Len(obs) THEN obs
    ELSE LET desired_left == obs[i - 1] + lane.obstacle_width + lane.min_gap
         IN  PushBackRight(lane,
                 IF obs[i] < desired_left
                 THEN [obs EXCEPT ![i] = desired_left]
                 ELSE obs,
                 i + 1)

\* Lane.update up to the gap pass: move every obstacle, then sort and push back.
MoveAndSpace(lane, dt) ==
    LET moved == [k \in 1..Len(lane.obstacles) |->
                     ObstacleUpdate(lane.obstacles[k], lane.direction, lane.speed, dt)]
    IN  IF Len(moved) > 1
        THEN LET sorted == SortSeq(moved, LAMBDA a, b : a < b)
             IN  IF lane.direction > 0
                 THEN PushBackLeft(lane, sorted, Len(sorted) - 1)
                 ELSE PushBackRight(lane, sorted, 2)
        ELSE moved

RemoveOffscreenAtEdge(lane, obs, screen_width) ==
    IF lane.direction > 0
    THEN SelectSeq(obs, LAMBDA x : x < screen_width)
    ELSE SelectSeq(obs, LAMBDA x : x + lane.obstacle_width > 0)

\* The filter of Lane.update that drops what left the screen.
RemoveOffscreen(lane, obs, screen_width) ==
    IF lane.direction > 0
    THEN SelectSeq(obs, LAMBDA x : x < screen_width + OffscreenMargin)
    ELSE SelectSeq(obs, LAMBDA x : x + lane.obstacle_width > -OffscreenMargin)

\* Lane.update up to and including the removal.
Advance(lane, dt, screen_width) ==
    [lane EXCEPT !.obstacles = RemoveOffscreen(lane, MoveAndSpace(lane, dt), screen_width)]

\* Whether the spawn timer of Lane.update fires in this call.
TimerFires(lane, dt) == lane.spawn_timer + dt >= lane.spawn_every

\* Lane.update with the timer zeroed only when the spawn goes ahead.
LaneUpdateTimerKeptWhenBlocked(lane, dt, screen_width) ==
    LET kept == Advance(lane, dt, screen_width)
    IN  IF TimerFires(lane, dt) /\ CanSpawn(kept, screen_width)
        THEN Spawn([kept EXCEPT !.spawn_timer = 0], screen_width)
        ELSE [kept EXCEPT !.spawn_timer = @ + dt]

LaneUpdate(lane, dt, screen_width) ==
    LET kept == Advance(lane, dt, screen_width)
    IN  IF TimerFires(lane, dt)
        THEN LET zeroed == [kept EXCEPT !.spawn_timer = 0]
             IN  IF CanSpawn(zeroed, screen_width)
                 THEN Spawn(zeroed, screen_width)
                 ELSE zeroed
        ELSE [kept EXCEPT !.spawn_timer = @ + dt]

(***************************************************************************)
(* The Level session.                                                      *)
(***************************************************************************)
\* Bounds of the session model.  The configuration a session is built from
\* has the shape _make_level gives it, cut to NumLanes lanes, with star
\* thresholds the bounded runs can pass.
LevelNum == 1

NumLanes == 2

ThreeStar == 250

TwoStar == 350

MaxTime == 400

Config ==
    LET made == MakeLevel(LevelNum)
    IN  [made EXCEPT !.lane_count = NumLanes,
                     !.lanes = SubSeq(made.lanes, 1, NumLanes),
                     !.star_times = [three |-> ThreeStar, two |-> TwoStar]]

SafeZoneHeight(cfg) == cfg.lane_height

CarHeight(cfg) == Max(26, (cfg.lane_height * 115) \div 100)

CarWidth(cfg) == Max(90, (CarHeight(cfg) * 149) \div 100)

\* A Player built in the middle of the lowest lane instead of the safe zone.
LevelPlayerOnRoad(cfg, sprite) ==
    NewPlayer(SCREEN_WIDTH \div 2,
              SCREEN_HEIGHT - SafeZoneHeight(cfg) - (cfg.lane_height \div 2),
              PlayerRadius, cfg.lane_height,
              <<0, 0, SCREEN_WIDTH, SCREEN_HEIGHT>>, sprite)

\* The Player that Level.__init__ builds; sprite tells whether its image loaded.
LevelPlayer(cfg, sprite) ==
    NewPlayer(SCREEN_WIDTH \div 2, SCREEN_HEIGHT - (SafeZoneHeight(cfg) \div 2),
              PlayerRadius, cfg.lane_height,
              <<0, 0, SCREEN_WIDTH, SCREEN_HEIGHT>>, sprite)

\* The Lane that Level.__init__ builds for lane index i (from 0).
LevelLane(cfg, i) ==
    LET lane_cfg == cfg.lanes[i + 1]
        top      == SCREEN_HEIGHT - SafeZoneHeight(cfg) - (i + 1) * cfg.lane_height
    IN  NewLane([x |-> 0, y |-> top, w |-> SCREEN_WIDTH, h |-> cfg.lane_height],
                lane_cfg.direction, lane_cfg.speed, lane_cfg.spawn_every,
                CarWidth(cfg), CarHeight(cfg), lane_cfg.gap_min)

FinishLineYNoSafeZone(cfg) ==
    SCREEN_HEIGHT - (cfg.lane_count * cfg.lane_height)

FinishLineY(cfg) ==
    SCREEN_HEIGHT - SafeZoneHeight(cfg) - (cfg.lane_count * cfg.lane_height)

\* Level.stars_earned
StarsEarnedStrict(cfg, is_won, t) ==
    IF ~is_won THEN 0
    ELSE IF t < cfg.star_times.three THEN 3
    ELSE IF t < cfg.star_times.two THEN 2
    ELSE 1

StarsEarned(cfg, is_won, t) ==
    IF ~is_won THEN 0
    ELSE IF t <= cfg.star_times.three THEN 3
    ELSE IF t <= cfg.star_times.two THEN 2
    ELSE 1

\* The shrunken obstacle rectangle the collision loop tests.
HitboxNotShrunk(r) == r

Hitbox(r) ==
    RectInflate(r, -Max(6, (r.w * 16) \div 100), -Max(4, (r.h * 20) \div 100))

\* The inner loop of the collision check: obstacles k.. of one lane.
RECURSIVE HitsFrom(_, _, _)
HitsFrom(player_rect, lane, k) ==
    IF k > Len(lane.obstacles) THEN FALSE
    ELSE IF CollideRect(player_rect, Hitbox(ObstacleRect(lane, lane.obstacles[k])))
    THEN TRUE
    ELSE HitsFrom(player_rect, lane, k + 1)

\* The outer loop: lanes i.. in list order, returning at the first hit.
RECURSIVE CollisionFrom(_, _, _)
CollisionFrom(player_rect, ls, i) ==
    IF i > Len(ls) THEN FALSE
    ELSE IF HitsFrom(player_rect, ls[i], 1) THEN TRUE
    ELSE CollisionFrom(player_rect, ls, i + 1)

\* The session state the flags stand for.
SessionState(is_running, is_won, is_lost) ==
    IF is_won THEN "won" ELSE IF is_lost THEN "lost"
    ELSE IF is_running THEN "running" ELSE "idle"

\* The guard of Level.update.
ActiveIgnoresRunning(is_running, is_won, is_lost) == ~(is_won \/ is_lost)

Active(is_running, is_won, is_lost) == ~(~is_running \/ is_won \/ is_lost)

\* The flags Level.update leaves, from the flags before, whether the collision
\* loop found a hit, and whether the player is at or above the finish line.
OutcomeWinKeepsRunning(flags, hit, reached) ==
    IF hit THEN [flags EXCEPT !.lost = TRUE, !.running = FALSE]
    ELSE IF reached THEN [flags EXCEPT !.won = TRUE]
    ELSE flags

Outcome(flags, hit, reached) ==
    IF hit THEN [flags EXCEPT !.lost = TRUE, !.running = FALSE]
    ELSE IF reached THEN [flags EXCEPT !.won = TRUE, !.running = FALSE]
    ELSE flags

(***************************************************************************)
(* Inputs.                                                                 *)
(***************************************************************************)
KeyDown(key) == [type |-> "KEYDOWN", key |-> key]

KeyUp(key) == [type |-> "KEYUP", key |-> key]

\* Lane.reset draws seed_count in 1..3 and 40 candidates in randint's range;
\* the model draws the candidates from a grid of positions within that range.
SeedCounts == 1..3

SeedRange(lane) == 0..Max(0, lane.rect.w - lane.obstacle_width)

\* Every outcome of Lane.reset over the draws from `grid`.
LaneResets(lane, grid) ==
    {LaneReset(lane, seed_count, candidates) :
        seed_count \in SeedCounts,
        candidates \in (SUBSET (grid \cap SeedRange(lane))) \ {{}}}

\* Every outcome of resetting the lanes ls[1..k], each with its own draws.
RECURSIVE AllResets(_, _, _)
AllResets(ls, k, grid) ==
    IF k = 0 THEN {<<>>}
    ELSE {Append(done, r) : done \in AllResets(ls, k - 1, grid),
                            r \in LaneResets(ls[k], grid)}

\* The values of `obstacle` and `tracked` while nothing is followed.
NoObstacle == [x |-> 0, start_x |-> 0, speed |-> 0, direction |-> 1, dt |-> 0, ticks |-> 0]

NoTrack == [lane |-> 0, index |-> 0]

\* The values of `main` and `frame` while main() is not running.
NoMain == [state |-> "HOME", running |-> FALSE, level_index |-> 0, level |-> "None"]

NoFrame == [state |-> "none", level_index |-> 0, events |-> <<>>, starts |-> <<>>]

(***************************************************************************)
(* Spec: one Level session, from construction.                            *)
(***************************************************************************)
LevelDts == {50, 100}

LevelBatches ==
    {<<>>, <<KeyDown("K_UP")>>, <<KeyDown("K_LEFT")>>, <<KeyDown("K_d")>>,
     <<KeyDown("K_r"), KeyDown("K_w")>>}

LevelGrid == {300, 620}

Init ==
    /\ time_elapsed = 0
    /\ running = FALSE
    /\ won = FALSE
    /\ lost = FALSE
    /\ \E sprite \in BOOLEAN : player = LevelPlayer(Config, sprite)
    /\ lanes = [k \in 1..Len(Config.lanes) |-> LevelLane(Config, k - 1)]
    /\ op = "init"
    /\ since_step = -1
    /\ asked = [from |-> <<player.x, player.y>>, key |-> "none"]
    /\ from_state = "none"
    /\ calls = <<>>
    /\ obstacle = NoObstacle
    /\ tracked = NoTrack
    /\ main = NoMain
    /\ frame = NoFrame

\* Level.start
Start ==
    /\ UNCHANGED <<main, frame>>
    /\ time_elapsed' = 0
    /\ running' = TRUE
    /\ won' = FALSE
    /\ lost' = FALSE
    /\ player' = PlayerReset(player)
    /\ lanes' \in AllResets(lanes, Len(lanes), LevelGrid)
    /\ op' = "start"
    /\ from_state' = SessionState(running, won, lost)
    /\ UNCHANGED <<since_step, asked, calls, obstacle, tracked>>

\* Level.update(dt, events)
Update(dt, events) ==
    /\ UNCHANGED <<main, frame>>
    /\ op' = "update"
    /\ from_state' = SessionState(running, won, lost)
    /\ UNCHANGED <<since_step, asked, calls, obstacle, tracked>>
    /\ IF ~Active(running, won, lost)
       THEN UNCHANGED <<time_elapsed, running, won, lost, player, lanes>>
       ELSE /\ time_elapsed + dt <= MaxTime
            /\ LET p   == PlayerUpdate(player, dt, events)
                   ls  == [k \in 1..Len(lanes) |-> LaneUpdate(lanes[k], dt, SCREEN_WIDTH)]
                   hit == CollisionFrom(PlayerRect(p), ls, 1)
                   out == Outcome([running |-> running, won |-> won, lost |-> lost],
                                  hit, p.y <= FinishLineY(Config))
               IN  /\ time_elapsed' = time_elapsed + dt
                   /\ player' = p
                   /\ lanes' = ls
                   /\ running' = out.running
                   /\ won' = out.won
                   /\ lost' = out.lost

Next ==
    \/ Start
    \/ \E dt \in LevelDts, events \in LevelBatches : Update(dt, events)

Spec == Init /\ [][Next]_vars

(***************************************************************************)
(* PlayerSpec: the Player of a session alone, under Player.reset and      *)
(* Player.update with any frame time and event batch of the sets below.   *)
(***************************************************************************)
PlayerDts == {18, 72, 100}

DirectionKeys == {"K_UP", "K_DOWN", "K_LEFT", "K_RIGHT", "K_w", "K_a", "K_s", "K_d"}

PlayerBatches ==
    {<<>>, <<KeyUp("K_UP")>>, <<KeyDown("K_r"), KeyDown("K_UP")>>,
     <<KeyDown("K_LEFT"), KeyDown("K_DOWN")>>}
    \cup {<<KeyDown(key)>> : key \in DirectionKeys}

SinceCap == 90

IsDirectional(event) == event.type = "KEYDOWN" /\ event.key \in DirectionKeys

HasDirectional(events) == \E k \in 1..Len(events) : IsDirectional(events[k])

\* The first directional key-down of a batch that holds one.
FirstDirectional(events) ==
    events[CHOOSE k \in 1..Len(events) :
               /\ IsDirectional(events[k])
               /\ \A j \in 1..(k - 1) : ~IsDirectional(events[j])]

\* The cooldown is 0 when the events of update(dt, ...) are processed.
ReadyAt(p, dt) == FSubMax0(p.move_cooldown, DtFloat[dt]) = FZero

\* Player.update without the final clamp.
Stepped(p, dt, events) ==
    HandleEvents([p EXCEPT !.move_cooldown = FSubMax0(@, DtFloat[dt])], events)

\* Whether Player.update(dt, events) applies a step to p.
AcceptsStep(p, dt, events) ==
    Stepped(p, dt, events).move_cooldown # FSubMax0(p.move_cooldown, DtFloat[dt])

PlayerResetStep ==
    /\ UNCHANGED <<main, frame>>
    /\ player' = PlayerReset(player)
    /\ since_step' = -1
    /\ asked' = [from |-> <<player.x, player.y>>, key |-> "none"]
    /\ op' = "player_reset"
    /\ UNCHANGED <<time_elapsed, running, won, lost, lanes>>
    /\ UNCHANGED <<from_state, calls, obstacle, tracked>>

PlayerUpdateStep(dt, events) ==
    /\ UNCHANGED <<main, frame>>
    /\ player' = PlayerUpdate(player, dt, events)
    /\ since_step' = IF AcceptsStep(player, dt, events) THEN 0
                     ELSE IF since_step < 0 THEN -1
                     ELSE Min(since_step + dt, SinceCap)
    /\ asked' = [from |-> <<player.x, player.y>>,
                 key  |-> IF ReadyAt(player, dt) /\ HasDirectional(events)
                          THEN FirstDirectional(events).key ELSE "none"]
    /\ op' = "player_update"
    /\ UNCHANGED <<time_elapsed, running, won, lost, lanes>>
    /\ UNCHANGED <<from_state, calls, obstacle, tracked>>

PlayerNext ==
    \/ PlayerResetStep
    \/ \E dt \in PlayerDts, events \in PlayerBatches : PlayerUpdateStep(dt, events)

\* Player.update and Player.reset never read the sprite, so one value of it
\* covers the player's motion.
PlayerInit == Init /\ ~player.sprite

PlayerSpec == PlayerInit /\ [][PlayerNext]_vars

(***************************************************************************)
(* LaneSpec: one Lane of a session alone, under Lane.reset and            *)
(* Lane.update.                                                            *)
(***************************************************************************)
LaneDts == {0, 250, 1250}

LaneGrid == {0, 284, 568, 700}

LaneInit ==
    /\ time_elapsed = 0
    /\ running = FALSE
    /\ won = FALSE
    /\ lost = FALSE
    /\ player = LevelPlayer(Config, FALSE)
    /\ \E i \in 0..(Len(Config.lanes) - 1) : lanes = <<LevelLane(Config, i)>>
    /\ op = "init"
    /\ since_step = -1
    /\ asked = [from |-> <<player.x, player.y>>, key |-> "none"]
    /\ from_state = "none"
    /\ calls = <<>>
    /\ obstacle = NoObstacle
    /\ tracked = NoTrack
    /\ main = NoMain
    /\ frame = NoFrame

LaneResetStep ==
    /\ UNCHANGED <<main, frame>>
    /\ lanes' \in AllResets(lanes, 1, LaneGrid)
    /\ op' = "lane_reset"
    /\ UNCHANGED <<time_elapsed, running, won, lost, player, since_step, asked>>
    /\ UNCHANGED <<from_state, calls, obstacle, tracked>>

LaneUpdateStep(dt) ==
    /\ UNCHANGED <<main, frame>>
    /\ lanes' = <<LaneUpdate(lanes[1], dt, SCREEN_WIDTH)>>
    /\ op' = "lane_update"
    /\ UNCHANGED <<time_elapsed, running, won, lost, player, since_step, asked>>
    /\ UNCHANGED <<from_state, calls, obstacle, tracked>>

LaneNext ==
    \/ LaneResetStep
    \/ \E dt \in LaneDts : LaneUpdateStep(dt)

LaneSpec == LaneInit /\ [][LaneNext]_vars

(***************************************************************************)
(* ObstacleSpec: one Obstacle on its own, given Obstacle.update with the   *)
(* same dt again and again.  The speeds are lane speeds of the generator,  *)
(* the frame times those of a 60 FPS clock (16 or 17 ms) and 100 ms.       *)
(***************************************************************************)
ObstacleSpeeds == {170, 176, 198}

ObstacleDts == {16, 17, 100}

MaxTicks == 6

ObstacleInit ==
    /\ time_elapsed = 0
    /\ running = FALSE
    /\ won = FALSE
    /\ lost = FALSE
    /\ player = LevelPlayer(Config, FALSE)
    /\ lanes = <<>>
    /\ op = "init"
    /\ since_step = -1
    /\ asked = [from |-> <<player.x, player.y>>, key |-> "none"]
    /\ from_state = "none"
    /\ calls = <<>>
    /\ tracked = NoTrack
    /\ main = NoMain
    /\ frame = NoFrame
    /\ \E speed \in ObstacleSpeeds, direction \in {1, -1}, dt \in ObstacleDts :
           obstacle = [x |-> 0, start_x |-> 0, speed |-> speed,
                       direction |-> direction, dt |-> dt, ticks |-> 0]

\* Obstacle.update(dt)
ObstacleTick ==
    /\ UNCHANGED <<main, frame>>
    /\ obstacle.ticks < MaxTicks
    /\ obstacle' = [obstacle EXCEPT
                       !.x = ObstacleUpdate(@, obstacle.direction, obstacle.speed, obstacle.dt),
                       !.ticks = @ + 1]
    /\ op' = "obstacle_update"
    /\ UNCHANGED <<time_elapsed, running, won, lost, player, lanes, since_step, asked>>
    /\ UNCHANGED <<from_state, calls, tracked>>

ObstacleNext == ObstacleTick

ObstacleSpec == ObstacleInit /\ [][ObstacleNext]_vars

(***************************************************************************)
(* GenSpec: the level generator, called with any argument from a little   *)
(* below 1 to a little above 10; the state keeps the latest calls with     *)
(* what they returned.                                                     *)
(***************************************************************************)
GenPad == 3

CallsKept == 2

GenArgs == (1 - GenPad)..(10 + GenPad)

GenInit ==
    /\ time_elapsed = 0
    /\ running = FALSE
    /\ won = FALSE
    /\ lost = FALSE
    /\ player = LevelPlayer(Config, FALSE)
    /\ lanes = <<>>
    /\ op = "init"
    /\ since_step = -1
    /\ asked = [from |-> <<player.x, player.y>>, key |-> "none"]
    /\ from_state = "none"
    /\ calls = <<>>
    /\ obstacle = NoObstacle
    /\ tracked = NoTrack
    /\ main = NoMain
    /\ frame = NoFrame

\* _make_level(level_num)
MakeLevelCall(level_num) ==
    /\ UNCHANGED <<main, frame>>
    /\ LET all == Append(calls, [level_num |-> level_num, config |-> MakeLevel(level_num)])
       IN  calls' = SubSeq(all, Max(1, Len(all) - CallsKept + 1), Len(all))
    /\ op' = "make_level"
    /\ UNCHANGED <<time_elapsed, running, won, lost, player, lanes, since_step, asked>>
    /\ UNCHANGED <<from_state, obstacle, tracked>>

GenNext == \E level_num \in GenArgs : MakeLevelCall(level_num)

GenSpec == GenInit /\ [][GenNext]_vars

(***************************************************************************)
(* LiveSpec: a started session advanced with dt = 0.1 s and no input, as   *)
(* long as it runs.  An observer may pick any obstacle present and follow  *)
(* it through the updates until Lane.update drops it.  The clock is kept   *)
(* up to LiveTimeCap, past both star thresholds, where its value no longer *)
(* matters to anything.                                                    *)
(***************************************************************************)
LiveDts == {100}

LiveTimeCap == 500

\* Where obstacle idx of the list stands after the moves and the stable sort
\* of Lane.update (the gap pass keeps the order of the list).
RankAfterMove(lane, dt, idx) ==
    LET moved == [k \in 1..Len(lane.obstacles) |->
                     ObstacleUpdate(lane.obstacles[k], lane.direction, lane.speed, dt)]
    IN  IF Len(moved) > 1
        THEN 1 + Cardinality({j \in 1..Len(moved) :
                                 \/ moved[j] < moved[idx]
                                 \/ moved[j] = moved[idx] /\ j < idx})
        ELSE idx

\* Whether the filter of Lane.update keeps an obstacle at x.
KeptAt(lane, x) == RemoveOffscreen(lane, <<x>>, SCREEN_WIDTH) # <<>>

\* The index of obstacle idx in the list Lane.update(dt) leaves, 0 if the
\* update removed it.  A spawn appends, so it moves no index.
IndexAfterUpdate(lane, dt, idx) ==
    LET spaced == MoveAndSpace(lane, dt)
        rank   == RankAfterMove(lane, dt, idx)
    IN  IF KeptAt(lane, spaced[rank])
        THEN Cardinality({j \in 1..rank : KeptAt(lane, spaced[j])})
        ELSE 0

LiveInit == Init /\ ~player.sprite

LiveStart ==
    /\ ~running /\ ~won /\ ~lost
    /\ Start

\* Level.update(dt, [])
LiveTick(dt) ==
    /\ UNCHANGED <<main, frame>>
    /\ op' = "update"
    /\ from_state' = SessionState(running, won, lost)
    /\ UNCHANGED <<since_step, asked, calls, obstacle>>
    /\ IF ~Active(running, won, lost)
       THEN UNCHANGED <<time_elapsed, running, won, lost, player, lanes, tracked>>
       ELSE LET p   == PlayerUpdate(player, dt, <<>>)
                ls  == [k \in 1..Len(lanes) |-> LaneUpdate(lanes[k], dt, SCREEN_WIDTH)]
                hit == CollisionFrom(PlayerRect(p), ls, 1)
                out == Outcome([running |-> running, won |-> won, lost |-> lost],
                               hit, p.y <= FinishLineY(Config))
            IN  /\ time_elapsed' = Min(time_elapsed + dt, LiveTimeCap)
                /\ player' = p
                /\ lanes' = ls
                /\ running' = out.running
                /\ won' = out.won
                /\ lost' = out.lost
                /\ tracked' = IF tracked.index = 0 THEN tracked
                              ELSE [tracked EXCEPT !.index =
                                       IndexAfterUpdate(lanes[tracked.lane], dt, @)]

\* The observer starts to follow obstacle k of lane i.
Follow(i, k) ==
    /\ UNCHANGED <<main, frame>>
    /\ tracked.index = 0
    /\ tracked' = [lane |-> i, index |-> k]
    /\ UNCHANGED <<time_elapsed, running, won, lost, player, lanes, op>>
    /\ UNCHANGED <<since_step, asked, from_state, calls, obstacle>>

LiveNext ==
    \/ LiveStart
    \/ \E dt \in LiveDts : LiveTick(dt)
    \/ \E i \in 1..Len(lanes) : \E k \in 1..Len(lanes[i].obstacles) : Follow(i, k)

\* The main loop calls Level.update on every frame of a session being played:
\* a session that stays active is updated again and again.  This is weak
\* fairness of the update, with its enabling condition (the guard of
\* Level.update; an update of an active session always changes the state)
\* written out.
LiveFairness ==
    \/ []<>(~Active(running, won, lost))
    \/ []<><<\E dt \in LiveDts : LiveTick(dt)>>_vars

LiveSpec == LiveInit /\ [][LiveNext]_vars /\ LiveFairness

(***************************************************************************)
(* IdleSpec: a session of any level of LEVELS, built as main builds it,    *)
(* started and then updated with no input events.                          *)
(***************************************************************************)
LEVELS == [i \in 1..5 |-> MakeLevel(i)]

IdleGrid == {300, 440}

IdleTimeCap == 300

\* The configuration the session was built from.
LevelConfig == calls[1].config

\* Level(LEVELS[idx], (SCREEN_WIDTH, SCREEN_HEIGHT))
IdleInit ==
    /\ \E idx \in 1..Len(LEVELS) :
           calls = <<[level_num |-> idx, config |-> LEVELS[idx]]>>
    /\ time_elapsed = 0
    /\ running = FALSE
    /\ won = FALSE
    /\ lost = FALSE
    /\ \E sprite \in BOOLEAN : player = LevelPlayer(LevelConfig, sprite)
    /\ lanes = [k \in 1..Len(LevelConfig.lanes) |-> LevelLane(LevelConfig, k - 1)]
    /\ op = "init"
    /\ since_step = -1
    /\ asked = [from |-> <<player.x, player.y>>, key |-> "none"]
    /\ from_state = "none"
    /\ obstacle = NoObstacle
    /\ tracked = NoTrack
    /\ main = NoMain
    /\ frame = NoFrame

\* Level.start, on the session just built
IdleStart ==
    /\ UNCHANGED <<main, frame>>
    /\ ~running /\ ~won /\ ~lost
    /\ time_elapsed' = 0
    /\ running' = TRUE
    /\ won' = FALSE
    /\ lost' = FALSE
    /\ player' = PlayerReset(player)
    /\ lanes' \in AllResets(lanes, Len(lanes), IdleGrid)
    /\ op' = "start"
    /\ from_state' = SessionState(running, won, lost)
    /\ UNCHANGED <<since_step, asked, calls, obstacle, tracked>>

\* Level.update(dt, [])
IdleUpdate(dt) ==
    /\ UNCHANGED <<main, frame>>
    /\ op' = "update"
    /\ from_state' = SessionState(running, won, lost)
    /\ UNCHANGED <<since_step, asked, calls, obstacle, tracked>>
    /\ IF ~Active(running, won, lost)
       THEN UNCHANGED <<time_elapsed, running, won, lost, player, lanes>>
       ELSE /\ time_elapsed + dt <= IdleTimeCap
            /\ LET p   == PlayerUpdate(player, dt, <<>>)
                   ls  == [k \in 1..Len(lanes) |-> LaneUpdate(lanes[k], dt, SCREEN_WIDTH)]
                   hit == CollisionFrom(PlayerRect(p), ls, 1)
                   out == Outcome([running |-> running, won |-> won, lost |-> lost],
                                  hit, p.y <= FinishLineY(LevelConfig))
               IN  /\ time_elapsed' = time_elapsed + dt
                   /\ player' = p
                   /\ lanes' = ls
                   /\ running' = out.running
                   /\ won' = out.won
                   /\ lost' = out.lost

IdleNext ==
    \/ IdleStart
    \/ \E dt \in LevelDts : IdleUpdate(dt)

IdleSpec == IdleInit /\ [][IdleNext]_vars

(***************************************************************************)
(* MainSpec: the screen state machine of main(), one action per iteration  *)
(* of its loop.  The levels are those of LEVELS, cut to NumLanes lanes and *)
(* given the star thresholds of the session model, so that a session can   *)
(* be won and lost within MaxTime.                                         *)
(***************************************************************************)
STATE_HOME == "HOME"

STATE_PLAYING == "PLAYING"

STATE_WIN == "WIN"

STATE_LOSE == "LOSE"

MainLevels ==
    [i \in 1..Len(LEVELS) |->
        [LEVELS[i] EXCEPT !.lane_count = NumLanes,
                          !.lanes = SubSeq(@, 1, NumLanes),
                          !.star_times = [three |-> ThreeStar, two |-> TwoStar]]]

\* Button(text, center, size): rect.center = center
Button(center, size) ==
    [rect |-> [x |-> center[1] - size[1] \div 2, y |-> center[2] - size[2] \div 2,
               w |-> size[1], h |-> size[2]],
     enabled |-> TRUE]

btn_start == Button(<<SCREEN_WIDTH \div 2, 360>>, <<220, 55>>)

btn_quit == Button(<<SCREEN_WIDTH \div 2, 430>>, <<220, 55>>)

btn_home == Button(<<SCREEN_WIDTH \div 2, 430>>, <<220, 55>>)

btn_retry == Button(<<SCREEN_WIDTH \div 2, 495>>, <<220, 55>>)

btn_next == Button(<<SCREEN_WIDTH \div 2, 560>>, <<220, 55>>)

\* pygame.Rect.collidepoint
CollidePoint(r, pos) ==
    /\ r.x <= pos[1] /\ pos[1] < r.x + r.w
    /\ r.y <= pos[2] /\ pos[2] < r.y + r.h

\* Button.handle_event
ButtonHandleEvent(button, event) ==
    /\ button.enabled
    /\ event.type = "MOUSEBUTTONDOWN"
    /\ event.button = 1
    /\ CollidePoint(button.rect, event.pos)

MouseDown(button, pos) == [type |-> "MOUSEBUTTONDOWN", button |-> button, pos |-> pos]

\* A left click in the middle of a button.
Click(button) ==
    MouseDown(1, <<button.rect.x + button.rect.w \div 2, button.rect.y + button.rect.h \div 2>>)

QuitEvent == [type |-> "QUIT"]

\* Seed positions: one in the columns the player crosses, one clear of them.
MainGrid == {440, 620}

\* The Level object as one record.
CurrentLevel ==
    [time_elapsed |-> time_elapsed, running |-> running, won |-> won, lost |-> lost,
     player |-> player, lanes |-> lanes]

\* Level(LEVELS[idx], ...) followed by start(): every outcome of the seeding.
StartedLevels(idx, sprite) ==
    LET cfg   == MainLevels[idx + 1]
        built == [k \in 1..Len(cfg.lanes) |-> LevelLane(cfg, k - 1)]
    IN  {[time_elapsed |-> 0, running |-> TRUE, won |-> FALSE, lost |-> FALSE,
          player |-> PlayerReset(LevelPlayer(cfg, sprite)), lanes |-> ls] :
            ls \in AllResets(built, Len(built), MainGrid)}

\* Level.update(dt, events) on the Level record lv built from cfg.
LevelUpdate(lv, cfg, dt, events) ==
    IF ~Active(lv.running, lv.won, lv.lost) THEN lv
    ELSE LET p   == PlayerUpdate(lv.player, dt, events)
             ls  == [k \in 1..Len(lv.lanes) |-> LaneUpdate(lv.lanes[k], dt, SCREEN_WIDTH)]
             hit == CollisionFrom(PlayerRect(p), ls, 1)
             out == Outcome([running |-> lv.running, won |-> lv.won, lost |-> lv.lost],
                            hit, p.y <= FinishLineY(cfg))
         IN  [time_elapsed |-> lv.time_elapsed + dt, running |-> out.running,
              won |-> out.won, lost |-> out.lost, player |-> p, lanes |-> ls]

\* has_next: whether the end screen offers the next level.
HasNext(m) == m.state = STATE_WIN /\ m.level_index < Len(LEVELS) - 1

\* start_level(idx) on ms = [m, starts]: m the locals (the Level object
\* aside), starts the calls of start_level made in this iteration, each with
\* the screen state and level_index it found and the index it started.
StartLevel(ms, idx) ==
    LET to == Max(0, Min(idx, Len(LEVELS) - 1))
    IN  [m      |-> [ms.m EXCEPT !.level_index = to,
                                 !.level = "Level",
                                 !.state = STATE_PLAYING],
         starts |-> Append(ms.starts, [state |-> ms.m.state,
                                       level_index |-> ms.m.level_index,
                                       to |-> to])]

\* The body of the event loop of the branch `branch` for one event.
MainEvent(branch, ms, event, has_next) ==
    IF branch = STATE_HOME
    THEN LET m1 == IF ButtonHandleEvent(btn_start, event) THEN StartLevel(ms, 0) ELSE ms
         IN  IF ButtonHandleEvent(btn_quit, event)
             THEN [m1 EXCEPT !.m.running = FALSE] ELSE m1
    ELSE IF branch = STATE_PLAYING
    THEN IF event.type = "KEYDOWN"
         THEN IF event.key = "K_ESCAPE"
              THEN [ms EXCEPT !.m.state = STATE_HOME]
              ELSE IF event.key = "K_r"
              THEN StartLevel(ms, ms.m.level_index)
              ELSE ms
         ELSE ms
    ELSE LET m1 == IF ButtonHandleEvent(btn_home, event)
                   THEN [ms EXCEPT !.m.state = STATE_HOME] ELSE ms
             m2 == IF ButtonHandleEvent(btn_retry, event)
                   THEN StartLevel(m1, m1.m.level_index) ELSE m1
         IN  IF ButtonHandleEvent([btn_next EXCEPT !.enabled = has_next], event) /\ has_next
             THEN StartLevel(m2, m2.m.level_index + 1) ELSE m2

RECURSIVE MainEvents(_, _, _, _)
MainEvents(branch, ms, events, has_next) ==
    IF events = <<>> THEN ms
    ELSE MainEvents(branch, MainEvent(branch, ms, Head(events), has_next),
                    Tail(events), has_next)

\* The end screens swapped.
AfterUpdateSwapped(state, lv) ==
    IF lv.won THEN STATE_LOSE ELSE IF lv.lost THEN STATE_WIN ELSE state

\* The screen state after the PLAYING branch has updated the level.
AfterUpdate(state, lv) ==
    IF lv.won THEN STATE_WIN ELSE IF lv.lost THEN STATE_LOSE ELSE state

MainDts == {50}

MainBatches ==
    {<<>>, <<KeyDown("K_UP")>>, <<KeyDown("K_ESCAPE")>>, <<KeyDown("K_r")>>,
     <<KeyDown("K_ESCAPE"), KeyDown("K_UP")>>,
     <<KeyDown("K_r"), KeyDown("K_ESCAPE")>>,
     <<KeyDown("K_ESCAPE"), KeyDown("K_r")>>,
     <<Click(btn_start)>>, <<Click(btn_home)>>, <<Click(btn_retry)>>, <<Click(btn_next)>>,
     <<Click(btn_next), Click(btn_next)>>, <<Click(btn_retry), Click(btn_home)>>,
     <<MouseDown(3, Click(btn_next).pos), QuitEvent>>}

\* main() up to its loop, where the player image does not load.
MainInit ==
    /\ main = [NoMain EXCEPT !.running = TRUE]
    /\ frame = NoFrame
    /\ time_elapsed = 0
    /\ running = FALSE
    /\ won = FALSE
    /\ lost = FALSE
    /\ player = LevelPlayer(MainLevels[1], FALSE)
    /\ lanes = <<>>
    /\ op = "init"
    /\ since_step = -1
    /\ asked = [from |-> <<player.x, player.y>>, key |-> "none"]
    /\ from_state = "none"
    /\ calls = <<>>
    /\ obstacle = NoObstacle
    /\ tracked = NoTrack

\* One iteration of the loop of main() with frame time dt and the batch
\* `events` from pygame.event.get().
Frame(dt, events) ==
    /\ main.running
    /\ op' = "frame"
    /\ UNCHANGED <<since_step, asked, from_state, calls, obstacle, tracked>>
    /\ LET quit     == \E k \in 1..Len(events) : events[k].type = "QUIT"
           m0       == IF quit THEN [main EXCEPT !.running = FALSE] ELSE main
           has_next == HasNext(main)
           ms       == MainEvents(main.state, [m |-> m0, starts |-> <<>>], events, has_next)
           cfg      == MainLevels[ms.m.level_index + 1]
       IN  /\ frame' = [state |-> main.state, level_index |-> main.level_index,
                        events |-> events, starts |-> ms.starts]
           /\ \E lv \in (IF ms.starts # <<>>
                         THEN StartedLevels(ms.m.level_index, player.sprite)
                         ELSE {CurrentLevel}) :
                  LET after == IF main.state = STATE_PLAYING
                               THEN LevelUpdate(lv, cfg, dt, events) ELSE lv
                  IN  /\ after.time_elapsed <= MaxTime
                      /\ time_elapsed' = after.time_elapsed
                      /\ running' = after.running
                      /\ won' = after.won
                      /\ lost' = after.lost
                      /\ player' = after.player
                      /\ lanes' = after.lanes
                      /\ main' = IF main.state = STATE_PLAYING
                                 THEN [ms.m EXCEPT !.state = AfterUpdate(@, after)]
                                 ELSE ms.m

MainNext == \E dt \in MainDts, events \in MainBatches : Frame(dt, events)

MainSpec == MainInit /\ [][MainNext]_vars

(***************************************************************************)
(* SpawnSpec: one Lane of a running session: reset once, when the session  *)
(* starts, then updated on every tick with a frame time that moves its     *)
(* obstacles by at least one pixel.                                        *)
(***************************************************************************)
\* int(speed * dt) >= 1 for the obstacles of `lane`.
MovesAPixel(lane, dt) == Trunc(lane.speed * dt, 1000) >= 1

SpawnReset ==
    /\ op = "init"
    /\ LaneResetStep

SpawnTick(dt) ==
    /\ op # "init"
    /\ MovesAPixel(lanes[1], dt)
    /\ LaneUpdateStep(dt)

SpawnNext ==
    \/ SpawnReset
    \/ \E dt \in LaneDts : SpawnTick(dt)

\* The main loop updates the level, and with it every lane, on every frame of
\* a running session: the lane is reset and then updated again and again.  An
\* update with dt > 0 always changes the lane.
SpawnFairness ==
    /\ <>(op # "init")
    /\ []<><<\E dt \in LaneDts : SpawnTick(dt)>>_vars

SpawnSpec == LaneInit /\ [][SpawnNext]_vars /\ SpawnFairness

(***************************************************************************)
(* The claims about the Level session, checked under Spec.                *)
(***************************************************************************)
\* The claims' own reading of the geometry, written from their words.
ShrunkenHitbox(r) ==
    LET cut_w == Max(6, (16 * r.w) \div 100)
        cut_h == Max(4, (20 * r.h) \div 100)
    IN  [x |-> r.x + cut_w \div 2, y |-> r.y + cut_h \div 2,
         w |-> r.w - cut_w, h |-> r.h - cut_h]

Intersects(a, b) ==
    /\ a.x < b.x + b.w /\ b.x < a.x + a.w
    /\ a.y < b.y + b.h /\ b.y < a.y + a.h

\* The player's collision rectangle meets the shrunken hitbox of an obstacle of lane i.
HitInLane(p, ls, i) ==
    \E k \in 1..Len(ls[i].obstacles) :
        Intersects(PlayerRect(p), ShrunkenHitbox(ObstacleRect(ls[i], ls[i].obstacles[k])))

HitSomewhere(p, ls) == \E i \in 1..Len(ls) : HitInLane(p, ls, i)

FinishLine == SCREEN_HEIGHT - Config.lane_height - Config.lane_count * Config.lane_height

\* C1: in every reachable state at most one of running, won, lost is true:
\* won and lost are never both true, and a won or lost session is not running.
C1_FlagsExclusive ==
    /\ ~(won /\ lost)
    /\ (won \/ lost) => ~running

C1_Witness == won /\ ~lost /\ ~running /\ op = "update"

\* C2: an update of a session that is not running (never started, won or lost)
\* leaves elapsed time, flags, player and lanes unchanged, for any dt and events.
C2_IdleUpdateChangesNothing ==
    [][(op' = "update" /\ ~running)
         => UNCHANGED <<time_elapsed, running, won, lost, player, lanes>>]_vars

C2_Witness == op = "update" /\ ~running /\ ~won /\ ~lost

\* C5: a running update ends Lost exactly when, after the player and the lanes
\* moved, the player's rectangle meets the shrunken hitbox of some obstacle of
\* some lane, whatever the order of lanes and obstacles; and Lost stays true
\* under further updates.
C5_LostIffHit ==
    [][(op' = "update")
         => /\ Active(running, won, lost) => (lost' <=> HitSomewhere(player', lanes'))
            /\ lost => lost']_vars

C5_Witness ==
    /\ lost /\ op = "update"
    /\ HitInLane(player, lanes, Len(lanes))
    /\ \A i \in 1..(Len(lanes) - 1) : ~HitInLane(player, lanes, i)

\* C6: a running update ends Won exactly when no collision was found on that
\* tick and the player's y after moving and clamping is at or above the finish
\* line, screen_height - safe_zone_height - lane_count * lane_height.
C6_WonIffReached ==
    [][(op' = "update" /\ Active(running, won, lost))
         => (won' <=> (~HitSomewhere(player', lanes') /\ player'.y <= FinishLine))]_vars

C6_Witness == won /\ op = "update" /\ player.y <= FinishLine

\* C10: stars_earned is 0 unless the session is won; when won it is 3 up to the
\* three-star time, 2 up to the two-star time and 1 beyond, so within 1..3 and
\* never larger for a longer time.
C10_Stars ==
    LET stars == StarsEarned(Config, won, time_elapsed)
        t3    == Config.star_times.three
        t2    == Config.star_times.two
    IN  /\ ~won => stars = 0
        /\ won => /\ time_elapsed <= t3 => stars = 3
                  /\ (t3 < time_elapsed /\ time_elapsed <= t2) => stars = 2
                  /\ time_elapsed > t2 => stars = 1
                  /\ stars \in 1..3
        /\ \A dt \in LevelDts :
               StarsEarned(Config, TRUE, time_elapsed + dt)
                   <= StarsEarned(Config, TRUE, time_elapsed)

C10_Witness ==
    /\ won
    /\ time_elapsed > Config.star_times.three
    /\ StarsEarned(Config, won, time_elapsed) = 2

\* The session's player as it would be had its sprite loaded, or not.
WithSprite(loaded) == [player EXCEPT !.sprite = loaded]

\* C14: with and without the sprite the player has the same collision
\* rectangle in every state, and so the collision check of a tick gives the
\* same answer.
C14_SpriteIrrelevant ==
    /\ PlayerRect(WithSprite(TRUE)) = PlayerRect(WithSprite(FALSE))
    /\ CollisionFrom(PlayerRect(WithSprite(TRUE)), lanes, 1)
          <=> CollisionFrom(PlayerRect(WithSprite(FALSE)), lanes, 1)

\* A lane as Lane.reset leaves it: the spawn timer at 0 and one to three
\* obstacles, each inside the lane's seeding range, whatever it held before.
FreshlySeeded(lane) ==
    /\ lane.spawn_timer = 0
    /\ Len(lane.obstacles) \in SeedCounts
    /\ \A k \in 1..Len(lane.obstacles) :
           /\ 0 <= lane.obstacles[k]
           /\ lane.obstacles[k] <= lane.rect.w - lane.obstacle_width

\* C11: Level.start, from any session state, leaves the session running, not
\* won, not lost, at elapsed time 0, the player at its start position with
\* cooldown 0, and every lane re-seeded with its spawn timer at 0.
C11_StartResets ==
    [][(op' = "start")
         => /\ running' /\ ~won' /\ ~lost'
            /\ time_elapsed' = 0
            /\ player'.x = SCREEN_WIDTH \div 2
            /\ player'.y = SCREEN_HEIGHT - Config.lane_height \div 2
            /\ player'.move_cooldown = FZero
            /\ Len(lanes') = Len(lanes)
            /\ \A k \in 1..Len(lanes') : FreshlySeeded(lanes'[k])]_vars

\* A lost session, started again.
C11_Witness ==
    /\ op = "start"
    /\ from_state = "lost"
    /\ running /\ ~lost

\* C29: every Lane that Level builds for lane i takes its parameters from the
\* configuration entry lanes[i]: its direction, speed, spawn_every, min_gap and
\* obstacle width equal the direction, speed, spawn_every, gap_min and width
\* generated for that lane.
C29_LaneFromConfig ==
    \A k \in 1..Len(lanes) :
        /\ lanes[k].direction = Config.lanes[k].direction
        /\ lanes[k].speed = Config.lanes[k].speed
        /\ lanes[k].spawn_every = Config.lanes[k].spawn_every
        /\ lanes[k].min_gap = Config.lanes[k].gap_min
        /\ lanes[k].obstacle_width = Config.lanes[k].width

(***************************************************************************)
(* The claims about a Lane, checked under LaneSpec.                       *)
(***************************************************************************)
\* Two obstacles of `lane` at x1 and x2 keep min_gap between their facing edges.
Apart(lane, x1, x2) ==
    \/ x1 + lane.obstacle_width + lane.min_gap <= x2
    \/ x2 + lane.obstacle_width + lane.min_gap <= x1

\* C3: after reset and any updates, every two obstacles of a lane are separated
\* edge to edge by at least min_gap, so no two of them overlap.
C3_MinGapKept ==
    \A i \in 1..Len(lanes) :
        \A j, k \in 1..Len(lanes[i].obstacles) :
            j # k => Apart(lanes[i], lanes[i].obstacles[j], lanes[i].obstacles[k])

C3_Witness ==
    /\ op = "lane_update"
    /\ Len(lanes[1].obstacles) >= 3
    /\ \E j, k \in 1..Len(lanes[1].obstacles) :
           lanes[1].obstacles[k] - lanes[1].obstacles[j]
               = lanes[1].obstacle_width + lanes[1].min_gap

\* Lane.update(dt) took the lane from `before` to `after` and spawned.
SpawnedIn(before, after, dt) ==
    /\ after = LaneUpdate(before, dt, SCREEN_WIDTH)
    /\ Len(after.obstacles) = Len(Advance(before, dt, SCREEN_WIDTH).obstacles) + 1

\* C4: whenever Lane.update spawns an obstacle, the newborn (the last of the
\* list) is at least min_gap away, edge to edge, from every obstacle already
\* in the lane, in lanes of both directions.
C4_SpawnKeepsGap ==
    [][\A dt \in LaneDts :
          (op' = "lane_update" /\ SpawnedIn(lanes[1], lanes'[1], dt))
            => LET obs == lanes'[1].obstacles
               IN  \A k \in 1..(Len(obs) - 1) : Apart(lanes'[1], obs[Len(obs)], obs[k])]_vars

\* A direction +1 lane whose newborn was pushed back behind the base position.
C4_Witness ==
    /\ op = "lane_update"
    /\ lanes[1].direction > 0
    /\ Len(lanes[1].obstacles) >= 2
    /\ lanes[1].obstacles[Len(lanes[1].obstacles)]
           < -lanes[1].obstacle_width - SpawnOffset

\* An obstacle at x has passed the margin beyond the lane's exit edge.
PassedMargin(lane, x) ==
    IF lane.direction > 0
    THEN x >= SCREEN_WIDTH + 200
    ELSE x + lane.obstacle_width <= -200

\* How many obstacles of xs have passed the margin (passed = TRUE) or not.
RECURSIVE CountIn(_, _, _)
CountIn(lane, xs, passed) ==
    IF xs = <<>> THEN 0
    ELSE (IF PassedMargin(lane, Head(xs)) = passed THEN 1 ELSE 0)
         + CountIn(lane, Tail(xs), passed)

\* C13: after every Lane.update no obstacle of the lane has passed the margin
\* of 200 beyond the exit edge, and the update removed no obstacle that had
\* not passed it: each such obstacle, where the update moved it, is still there.
C13_RemovedIffPassed ==
    [][(op' = "lane_update")
         => /\ \A k \in 1..Len(lanes'[1].obstacles) :
                    ~PassedMargin(lanes'[1], lanes'[1].obstacles[k])
            /\ \A dt \in LaneDts :
                    (lanes'[1] = LaneUpdate(lanes[1], dt, SCREEN_WIDTH))
                      => LET spaced == MoveAndSpace(lanes[1], dt)
                             after  == lanes'[1].obstacles
                         IN  /\ \A k \in 1..Len(spaced) :
                                    ~PassedMargin(lanes[1], spaced[k])
                                      => \E j \in 1..Len(after) : after[j] = spaced[k]
                             /\ Len(after) >= CountIn(lanes[1], spaced, FALSE)]_vars

\* An obstacle that left the screen but not the margin, kept by the update.
C13_Witness ==
    /\ op = "lane_update"
    /\ \E k \in 1..Len(lanes[1].obstacles) :
           \/ lanes[1].direction > 0 /\ lanes[1].obstacles[k] >= SCREEN_WIDTH
           \/ lanes[1].direction < 0 /\ lanes[1].obstacles[k] + lanes[1].obstacle_width <= 0

\* C21: immediately after Lane.reset the lane holds one to three obstacles and
\* never more than the seed count drawn, each fully within [0, lane width],
\* every two of them at least min_gap apart edge to edge, listed in ascending
\* x, and the spawn timer is 0.
C21_ResetSeeds ==
    /\ (op = "lane_reset")
         => LET lane == lanes[1]
                obs  == lane.obstacles
            IN  /\ Len(obs) >= 1 /\ Len(obs) <= 3
                /\ \A k \in 1..Len(obs) :
                       0 <= obs[k] /\ obs[k] + lane.obstacle_width <= lane.rect.w
                /\ \A j, k \in 1..Len(obs) : j # k => Apart(lane, obs[j], obs[k])
                /\ \A k \in 1..(Len(obs) - 1) : obs[k] < obs[k + 1]
                /\ lane.spawn_timer = 0
    /\ \A seed_count \in SeedCounts,
          candidates \in (SUBSET (LaneGrid \cap SeedRange(lanes[1]))) \ {{}} :
           Len(LaneReset(lanes[1], seed_count, candidates).obstacles) <= seed_count

\* A reset that placed three seeds, two of them exactly min_gap apart.
C21_Witness ==
    /\ op = "lane_reset"
    /\ Len(lanes[1].obstacles) = 3
    /\ lanes[1].obstacles[2] - lanes[1].obstacles[1]
           = lanes[1].obstacle_width + lanes[1].min_gap

\* C22: every obstacle Lane._spawn creates is entirely off-screen at birth: in
\* a direction +1 lane its right edge is at most -20, in a direction -1 lane
\* its left edge is at least screen_width + 20, pushed back from the nearest
\* obstacle or not; it never appears inside the visible range [0, screen_width].
C22_BornOffscreen ==
    [][\A dt \in LaneDts :
          (op' = "lane_update" /\ SpawnedIn(lanes[1], lanes'[1], dt))
            => LET lane == lanes'[1]
                   x    == lane.obstacles[Len(lane.obstacles)]
               IN  /\ lane.direction > 0 => x + lane.obstacle_width <= -20
                   /\ lane.direction < 0 => x >= SCREEN_WIDTH + 20
                   /\ ~(x <= SCREEN_WIDTH /\ x + lane.obstacle_width >= 0)]_vars

\* A direction -1 lane whose newborn stands at the base position, right of
\* the screen, behind the obstacles already in the lane.
C22_Witness ==
    /\ op = "lane_update"
    /\ lanes[1].direction < 0
    /\ Len(lanes[1].obstacles) >= 2
    /\ lanes[1].obstacles[Len(lanes[1].obstacles)] = SCREEN_WIDTH + SpawnOffset

\* C23: in each Lane.update the spawn timer grows by dt; if it is then at
\* least spawn_every it is reset to 0 whether or not _can_spawn permits the
\* spawn, and at most one obstacle is added; if it is below spawn_every no
\* obstacle is added and the timer keeps its accumulated value.
C23_SpawnTimer ==
    [][\A dt \in LaneDts :
          (op' = "lane_update" /\ lanes'[1] = LaneUpdate(lanes[1], dt, SCREEN_WIDTH))
            => LET kept  == Advance(lanes[1], dt, SCREEN_WIDTH).obstacles
                   after == lanes'[1]
               IN  IF lanes[1].spawn_timer + dt >= lanes[1].spawn_every
                   THEN /\ after.spawn_timer = 0
                        /\ \/ after.obstacles = kept
                           \/ /\ Len(after.obstacles) = Len(kept) + 1
                              /\ SubSeq(after.obstacles, 1, Len(kept)) = kept
                   ELSE /\ after.spawn_timer = lanes[1].spawn_timer + dt
                        /\ after.obstacles = kept]_vars

\* A direction -1 lane whose timer fired while the nearest obstacle was still
\* within min_gap of the spawn point: the timer is back at 0, no newborn stands
\* at the spawn point, and the obstacles are where updates, not seeds, put them.
C23_Witness ==
    /\ op = "lane_update"
    /\ lanes[1].direction < 0
    /\ lanes[1].spawn_timer = 0
    /\ ~CanSpawn(lanes[1], SCREEN_WIDTH)
    /\ \A k \in 1..Len(lanes[1].obstacles) :
           lanes[1].obstacles[k] < SCREEN_WIDTH + SpawnOffset
    /\ \E k \in 1..Len(lanes[1].obstacles) : lanes[1].obstacles[k] \notin LaneGrid

(***************************************************************************)
(* The claims about the Player, checked under PlayerSpec.                 *)
(***************************************************************************)
\* The step a key asks for, as the claims word it.
StepVector(step, key) ==
    CASE key \in {"K_UP", "K_w"}    -> <<0, -step>>
      [] key \in {"K_DOWN", "K_s"}  -> <<0, step>>
      [] key \in {"K_LEFT", "K_a"}  -> <<-step, 0>>
      [] key \in {"K_RIGHT", "K_d"} -> <<step, 0>>

Within(lo, v, hi) == IF v < lo THEN lo ELSE IF v > hi THEN hi ELSE v

\* The position a step by `vec` from `pos` ends at, kept inside the playfield.
Landing(pos, vec) ==
    <<Within(PlayerRadius, pos[1] + vec[1], SCREEN_WIDTH - PlayerRadius),
      Within(PlayerRadius, pos[2] + vec[2], SCREEN_HEIGHT - PlayerRadius)>>

\* C7, as stated: a directional key-down processed while the cooldown is 0
\* moves the player by exactly step along the matching axis and 0 along the other.
C7_ExactStep ==
    asked.key # "none"
      => <<player.x - asked.from[1], player.y - asked.from[2]>>
           = StepVector(player.step, asked.key)

\* C7, amended: the player moves by exactly step along the matching axis and 0
\* along the other, except that a step that would leave the playfield ends at
\* the bound (the centre radius away from the edge).
C7_StepOrBound ==
    asked.key # "none"
      => <<player.x, player.y>> = Landing(asked.from, StepVector(player.step, asked.key))

\* A step that the bottom bound cut short.
C7_Witness ==
    /\ op = "player_update"
    /\ asked.key \in {"K_DOWN", "K_s"}
    /\ asked.from[2] + player.step > SCREEN_HEIGHT - PlayerRadius
    /\ player.y = SCREEN_HEIGHT - PlayerRadius

\* C8: at most one step per update call; after an accepted step, directional
\* events move nothing while the dt accumulated by later updates is below
\* 0.09 s; and the first directional event processed once it is at least
\* 0.09 s steps again (to the bound at most).
C8_Throttle ==
    [][\A dt \in PlayerDts, events \in PlayerBatches :
          PlayerUpdateStep(dt, events)
            => /\ \/ <<player'.x, player'.y>> = <<player.x, player.y>>
                  \/ /\ HasDirectional(events)
                     /\ <<player'.x, player'.y>>
                          = Landing(<<player.x, player.y>>, StepVector(player.step, FirstDirectional(events).key))
               /\ (since_step >= 0 /\ since_step + dt < CooldownMs)
                    => <<player'.x, player'.y>> = <<player.x, player.y>>
               /\ (since_step >= 0 /\ since_step + dt >= CooldownMs /\ HasDirectional(events))
                    => <<player'.x, player'.y>>
                         = Landing(<<player.x, player.y>>, StepVector(player.step, FirstDirectional(events).key))]_vars

\* C9: after reset and after every update the player's centre is at least
\* radius inside each edge of the playfield.
C9_InsidePlayfield ==
    /\ PlayerRadius <= player.x /\ player.x <= SCREEN_WIDTH - PlayerRadius
    /\ PlayerRadius <= player.y /\ player.y <= SCREEN_HEIGHT - PlayerRadius

\* The left bound reached by a step that the clamp cut short.
C9_Witness ==
    /\ op = "player_update"
    /\ player.x = PlayerRadius

(***************************************************************************)
(* The claim about one Obstacle, checked under ObstacleSpec.              *)
(***************************************************************************)
\* C12: after k updates with step dt the obstacle has moved exactly
\* direction * speed * k * dt from where it started (times in ms, so the
\* displacement is compared in thousandths of a pixel).
C12_NoDisplacementLost ==
    1000 * (obstacle.x - obstacle.start_x)
        = obstacle.direction * obstacle.speed * obstacle.ticks * obstacle.dt

(***************************************************************************)
(* The claims about the level generator, checked under GenSpec.           *)
(***************************************************************************)
\* The calls kept whose argument is a level number of the generator's range.
InRange == {k \in 1..Len(calls) : calls[k].level_num \in 1..10}

\* C15: a call with an argument below 1 returns the configuration of a call
\* with 1, and a call with an argument above 10 that of a call with 10, in
\* every field.
C15_ArgumentClamped ==
    \A j, k \in 1..Len(calls) :
        /\ (calls[j].level_num < 1 /\ calls[k].level_num = 1)
              => calls[j].config = calls[k].config
        /\ (calls[j].level_num > 10 /\ calls[k].level_num = 10)
              => calls[j].config = calls[k].config

C15_Witness ==
    \E j, k \in 1..Len(calls) : calls[j].level_num > 10 /\ calls[k].level_num = 10

\* C16: for n in 1..10 every lane of the configuration has gap_min >= 95 and
\* spawn_every >= 0.55 s.
C16_LaneFloors ==
    \A k \in InRange :
        \A i \in 1..Len(calls[k].config.lanes) :
            /\ calls[k].config.lanes[i].gap_min >= 95
            /\ calls[k].config.lanes[i].spawn_every >= 550

\* The last lane of level 10, the lane with the smallest gap and period.
C16_Witness ==
    \E k \in InRange :
        /\ calls[k].level_num = 10
        /\ calls[k].config.lanes[Len(calls[k].config.lanes)].gap_min < 100

\* C17: for n in 1..10 the three-star time is at most the two-star time.
C17_StarBandsOrdered ==
    \A k \in InRange : calls[k].config.star_times.three <= calls[k].config.star_times.two

\* Level 10, where the three-star time has come closest to its floor.
C17_Witness ==
    \E k \in InRange :
        /\ calls[k].level_num = 10
        /\ calls[k].config.star_times.three < calls[k].config.star_times.two

\* C18: for n in 1..10 the configuration has lane_height 70 - (n - 1),
\* lane_count 5 + n and exactly lane_count lanes, lane i (from 0) with
\* direction +1 for even i and -1 for odd i and speed 170 + 28 (n - 1) + 6 i.
C18_Shape ==
    \A k \in InRange :
        LET n   == calls[k].level_num
            cfg == calls[k].config
        IN  /\ cfg.lane_height = 70 - (n - 1)
            /\ cfg.lane_count = 5 + n
            /\ Len(cfg.lanes) = cfg.lane_count
            /\ \A i \in 0..(cfg.lane_count - 1) :
                   /\ cfg.lanes[i + 1].direction = (IF i % 2 = 0 THEN 1 ELSE -1)
                   /\ cfg.lanes[i + 1].speed = 170 + 28 * (n - 1) + 6 * i

C18_Witness ==
    \E k \in InRange : calls[k].level_num = 10 /\ Len(calls[k].config.lanes) = 15

\* The smallest y the clamp of Player.update lets the player of a level reach.
TopmostY(cfg) ==
    LET p == LevelPlayer(cfg, FALSE)
    IN  Clamp([p EXCEPT !.y = p.bounds[2]]).y

\* C19: for every level of LEVELS (difficulty 1..5) the finish line is not
\* above the smallest y the player can reach, so up-steps bring the player to
\* y <= finish_line_y and Won is reachable.
C19_Winnable ==
    \A k \in 1..Len(calls) :
        calls[k].level_num \in 1..5 => TopmostY(calls[k].config) <= FinishLineY(calls[k].config)

(***************************************************************************)
(* The claim about obstacles leaving, checked under LiveSpec.             *)
(***************************************************************************)
\* Where Lane.update(dt) moves the obstacle followed, before the filter.
FollowedMovedTo(dt) ==
    MoveAndSpace(lanes[tracked.lane], dt)[RankAfterMove(lanes[tracked.lane], dt, tracked.index)]

\* C20: in a started level-1 session advanced with dt = 0.1 s and no input,
\* every obstacle present in a lane, seeded or spawned, is eventually removed
\* from it, and it is removed only once it is 200 px beyond the exit edge.
\* (An update that failed would be an action TLC cannot evaluate; TLC
\* evaluates the update of every reachable state.)
C20_ObstaclesLeave ==
    /\ [][(tracked.index > 0 /\ tracked'.index = 0)
            => \E dt \in LiveDts : PassedMargin(lanes[tracked.lane], FollowedMovedTo(dt))]_vars
    /\ (tracked.index > 0) ~> (tracked.index = 0)

\* An obstacle that was followed and that its lane has dropped.
C20_Witness ==
    /\ running
    /\ op = "update"
    /\ tracked.lane > 0
    /\ tracked.index = 0

(***************************************************************************)
(* The claim about spawning, checked under SpawnSpec.                      *)
(***************************************************************************)
\* C28: in a running session where each tick moves obstacles by at least one
\* pixel, every lane spawns a new obstacle infinitely often: _can_spawn never
\* blocks the spawn forever and the lane never stays empty forever.
C28_SpawnsForever ==
    /\ []<><<\E dt \in LaneDts :
                op' = "lane_update" /\ SpawnedIn(lanes[1], lanes'[1], dt)>>_vars
    /\ []<>(lanes[1].obstacles # <<>>)

\* A newborn at the spawn point of a direction -1 lane, behind an obstacle
\* that the updates have moved to where no seed stands.
C28_Witness ==
    /\ op = "lane_update"
    /\ lanes[1].direction < 0
    /\ Len(lanes[1].obstacles) >= 2
    /\ lanes[1].obstacles[Len(lanes[1].obstacles)] = SCREEN_WIDTH + SpawnOffset
    /\ lanes[1].obstacles[1] \notin LaneGrid

(***************************************************************************)
(* The claim about sessions without input, checked under IdleSpec.         *)
(***************************************************************************)
\* The obstacle of `lane` at x stands in the columns of the rectangle r.
SameColumns(r, lane, x) ==
    LET box == Hitbox(ObstacleRect(lane, x))
    IN  box.x < RectRight(r) /\ r.x < RectRight(box)

\* C27: a started session that receives no input events never becomes Lost
\* and never becomes Won, for any level in LEVELS and any sequence of dt: the
\* player's collision rectangle at the start position in the bottom safe zone
\* intersects no obstacle hitbox of any lane.
C27_IdleSessionRuns ==
    (op = "start" \/ (op = "update" /\ from_state # "idle"))
      => /\ running /\ ~won /\ ~lost
         /\ player.x = player.start_x /\ player.y = player.start_y
         /\ player.y > FinishLineY(LevelConfig)
         /\ \A i \in 1..Len(lanes) : \A k \in 1..Len(lanes[i].obstacles) :
                ~CollideRect(PlayerRect(player),
                             Hitbox(ObstacleRect(lanes[i], lanes[i].obstacles[k])))

\* A level-5 session after an update, with an obstacle of the lowest lane in
\* the columns the player stands in.
C27_Witness ==
    /\ op = "update"
    /\ calls[1].level_num = 5
    /\ time_elapsed > 0
    /\ player.sprite
    /\ \E k \in 1..Len(lanes[1].obstacles) :
           SameColumns(PlayerRect(player), lanes[1], lanes[1].obstacles[k])

(***************************************************************************)
(* The claims about main(), checked under MainSpec.                        *)
(***************************************************************************)
\* The batch of the last iteration holds a key-down of `key`.
Pressed(key) ==
    \E k \in 1..Len(frame.events) :
        frame.events[k].type = "KEYDOWN" /\ frame.events[k].key = key

\* The batch of the last iteration holds a left click on `button`.
Clicked(button) ==
    \E k \in 1..Len(frame.events) : ButtonHandleEvent(button, frame.events[k])

\* C24: a level with a higher index than the current one is started only by
\* the Next Level button while the screen state is WIN and a next level
\* exists; from LOSE nothing starts a higher-indexed level, only Reattempt of
\* the same index or Home; level_index stays within 0..len(LEVELS)-1.
C24_NextOnlyAfterWin ==
    /\ main.level_index >= 0 /\ main.level_index <= 4
    /\ \A k \in 1..Len(frame.starts) :
           frame.starts[k].to > frame.starts[k].level_index
             => /\ frame.starts[k].state = STATE_WIN
                /\ frame.starts[k].level_index < 4
                /\ Clicked(btn_next)
    /\ (op = "frame" /\ frame.state = STATE_LOSE)
         => /\ main.level_index = frame.level_index
            /\ \/ main.state = STATE_LOSE /\ ~Clicked(btn_retry) /\ ~Clicked(btn_home)
               \/ main.state = STATE_PLAYING /\ Clicked(btn_retry)
               \/ main.state = STATE_HOME /\ Clicked(btn_home)

\* C25: in the PLAYING screen state, a frame whose event batch contains an ESC
\* key-down and no R key-down ends with the screen state HOME, whatever else
\* happens to the level in that frame.
C25_EscGoesHome ==
    (op = "frame" /\ frame.state = STATE_PLAYING
       /\ Pressed("K_ESCAPE") /\ ~Pressed("K_r"))
      => main.state = STATE_HOME

\* C26: the end screen matches the session outcome: WIN implies the current
\* level is Won, with 1 to 3 stars; LOSE implies it is Lost; and PLAYING, WIN
\* or LOSE implies a level object exists.
C26_EndScreenMatches ==
    /\ main.state = STATE_WIN
         => /\ won /\ ~lost
            /\ StarsEarned(MainLevels[main.level_index + 1], won, time_elapsed) \in 1..3
    /\ main.state = STATE_LOSE => (lost /\ ~won)
    /\ main.state \in {STATE_PLAYING, STATE_WIN, STATE_LOSE} => main.level = "Level"

\* The WIN screen of the last level.
C26_Witness ==
    /\ main.state = STATE_WIN
    /\ main.level_index = 4
    /\ won

====
